---- MODULE Spec2Model ----
(***************************************************************************)
(* A model of oracledbexec.js: the three execution modes (oraexec,         *)
(* oraexectrans, begintrans/exectrans/committrans/rollbacktrans) on top of *)
(* a node-oracledb connection pool.                                        *)
(*                                                                         *)
(* Every driver call of the source is asynchronous.  A call made with a    *)
(* callback (pool.getConnection, connection.execute) continues in its      *)
(* callback; a call made without one (connection.commit, .rollback,        *)
(* .close) returns a promise that the source drops, so its completion and  *)
(* its failure are seen by nobody.  The driver serialises the operations   *)
(* of one connection in the order they were issued: opq[c] is that queue.  *)
(* Each JavaScript callback runs to completion, so it is one action.       *)
(* queryBindToString and sqlLogConsole are taken to return and to leave    *)
(* the state alone.                                                        *)
(***************************************************************************)
EXTENDS Integers, Sequences, FiniteSets, TLC

\* ---------------------------------------------------------------- bounds
PoolMax  == 1     \* dbconfig.poolMax (POOL_MAX)
QueueMax == 1     \* dbconfig.queueMax (QUEUE_MAX)
MaxBatch == 2     \* longest statement list given to oraexectrans
MaxCalls == 3     \* most calls a caller makes on one session handle

Clients == 1..3                        \* independent callers, one public call each
Sqls    == {"a", "b"}                  \* statement texts
ErrMsgs == {"ORA-00001"}               \* message of a failing statement
Kinds   == {"oraexec", "oraexectrans", "begintrans"}
Aliases == {"default", "hr"}           \* pool aliases; "" is an absent alias

NoVal == <<>>
NoErr == ""

VARIABLES
    poolAlias,    \* dbconfig.poolAlias (POOL_ALIAS, else 'default')
    alias,        \* alias[c]: the poolAlias argument of c's call ("": none given)
    pools,        \* the aliases of the pools the driver has registered
    admin,        \* initialize and close: [init, cfg, close], the outcome of each
    kind,         \* kind[c]: the public function client c calls ("none": never calls)
    queries,      \* queries[c]: the statement list (oraexec: the one statement)
    pc,           \* "idle", "queued", "granted", "run", "failed"
    waitq,        \* the pool's queue of pending getConnection requests
    connState,    \* "none", "open" (leased), "closed" (released to the pool)
    opq,          \* opq[c]: operations issued on c's connection, not yet completed
    log,          \* log[c]: every operation issued on c's connection, in order
    done,         \* done[c]: every operation the driver completed, with its outcome
    uncommitted,  \* effects (statement ids) of the connection's open transaction
    committed,    \* effects that are committed, i.e. visible in the database
    ressql,       \* oraexectrans: the result array, index -> {queryid, results}
    result,       \* the promise of the public call: [st, val, err]
    calls         \* begintrans: the calls made on the session handle, in order

conf == <<poolAlias, alias, pools, admin>>

vars == <<conf, kind, queries, pc, waitq, connState, opq, log, done,
          uncommitted, committed, ressql, result, calls>>

\* ------------------------------------------------------------ the driver
Op(name)      == [op |-> name, id |-> -1, sql |-> ""]
Exec(id, sql) == [op |-> "execute", id |-> id, sql |-> sql]

\* What connection.execute hands its callback on success.
Rows(sql) == <<"rows", sql>>

\* A promise: its state, its value or error, and n, the number of times its
\* resolve or reject was invoked.
Pending      == [st |-> "pending",  val |-> NoVal, err |-> NoErr, n |-> 0]
Resolved(v)  == [st |-> "resolved", val |-> v,     err |-> NoErr, n |-> 1]
Rejected(m)  == [st |-> "rejected", val |-> NoVal, err |-> m,     n |-> 1]

\* The outcomes of an operation at the head of the queue: on a leased
\* connection it succeeds or fails; on a released one it fails (NJS-003).
Outcomes(c) ==
    IF connState[c] = "open"
    THEN {[ok |-> TRUE, msg |-> NoErr]} \cup {[ok |-> FALSE, msg |-> m] : m \in ErrMsgs}
    ELSE {[ok |-> FALSE, msg |-> "NJS-003"]}

OkOrNot(c) == IF connState[c] = "open" THEN {TRUE, FALSE} ELSE {FALSE}

HeadIs(c, name) == opq[c] # <<>> /\ Head(opq[c]).op = name

Record(c, e, ok, msg) ==
    done' = [done EXCEPT ![c] = Append(@, [op |-> e.op, id |-> e.id, ok |-> ok, msg |-> msg])]

\* connection.execute completing: a successful statement adds its effect
\* to the open transaction, or commits it at once under autoCommit.
DriverExecute(c, e, r, autoCommit) ==
    /\ Record(c, e, r.ok, r.msg)
    /\ IF ~r.ok THEN UNCHANGED <<uncommitted, committed>>
       ELSE IF autoCommit
       THEN /\ committed' = [committed EXCEPT ![c] = @ \cup uncommitted[c] \cup {e.id}]
            /\ uncommitted' = [uncommitted EXCEPT ![c] = {}]
       ELSE /\ uncommitted' = [uncommitted EXCEPT ![c] = @ \cup {e.id}]
            /\ UNCHANGED committed

InUse == Cardinality({c \in Clients : connState[c] = "open"})

\* The pool a call looks up: oracledb.getPool(poolAlias) when an alias is
\* given, else oracledb.getPool('default').
PoolOf(c) == IF alias[c] # "" THEN alias[c] ELSE "default"

\* getPool, which throws when no pool has the alias (the promise of the call
\* rejects with what its executor throws), then pool.getConnection: a free
\* connection is leased, else the request queues, else (queue full) it
\* fails.
GetConnection(c) ==
    IF PoolOf(c) \notin pools
    THEN /\ pc' = [pc EXCEPT ![c] = "failed"]
         /\ result' = [result EXCEPT ![c] = Rejected("NJS-047")]
         /\ UNCHANGED <<connState, waitq>>
    ELSE IF InUse < PoolMax
    THEN /\ pc' = [pc EXCEPT ![c] = "granted"]
         /\ connState' = [connState EXCEPT ![c] = "open"]
         /\ UNCHANGED <<waitq, result>>
    ELSE IF Len(waitq) < QueueMax
    THEN /\ pc' = [pc EXCEPT ![c] = "queued"]
         /\ waitq' = Append(waitq, c)
         /\ UNCHANGED <<connState, result>>
    ELSE /\ pc' = [pc EXCEPT ![c] = "failed"]
         /\ result' = [result EXCEPT ![c] = Rejected("NJS-076")]
         /\ UNCHANGED <<connState, waitq>>

\* The operations a callback issues on the connection, behind the ones
\* still queued (q is the queue without the operation just completed).
Issue(c, q, ops) ==
    /\ opq' = [opq EXCEPT ![c] = q \o ops]
    /\ log' = [log EXCEPT ![c] = @ \o ops]


\* A promise settles once: a later resolve or reject changes nothing.
Settled1(p, v) == IF p.st = "pending" THEN v ELSE [p EXCEPT !.n = @ + 1]

Settle(c, v) == result' = [result EXCEPT ![c] = Settled1(@, v)]

\* ------------------------------------------------------------- oraexec
\* Mutant: the error path forgets to close the connection.
oraexecOnErrorLeak == <<>>

oraexecOnError   == <<Op("close")>>
oraexecOnSuccess == <<Op("close")>>

\* The call: the promise's executor looks the pool up and asks it for a
\* connection.
Oraexec(c) ==
    /\ kind[c] = "oraexec" /\ pc[c] = "idle"
    /\ GetConnection(c)
    /\ UNCHANGED <<conf, kind, queries, opq, log, done, uncommitted, committed, ressql, calls>>

\* getConnection's callback with a connection: execute, autoCommit: true.
OraexecConn(c) ==
    /\ kind[c] = "oraexec" /\ pc[c] = "granted"
    /\ pc' = [pc EXCEPT ![c] = "run"]
    /\ Issue(c, opq[c], <<Exec(0, queries[c][1])>>)
    /\ UNCHANGED <<conf, kind, queries, waitq, connState, done, uncommitted, committed,
                   ressql, result, calls>>

\* execute's callback: close, then reject(err) or resolve(result).
OraexecCb(c) ==
    /\ kind[c] = "oraexec" /\ HeadIs(c, "execute")
    /\ \E r \in Outcomes(c) :
         LET e == Head(opq[c]) IN
         /\ DriverExecute(c, e, r, TRUE)
         /\ IF ~r.ok
            THEN /\ Issue(c, Tail(opq[c]), oraexecOnError)
                 /\ Settle(c, Rejected(r.msg))
            ELSE /\ Issue(c, Tail(opq[c]), oraexecOnSuccess)
                 /\ Settle(c, Resolved(Rows(e.sql)))
    /\ UNCHANGED <<conf, kind, queries, pc, waitq, connState, ressql, calls>>

\* -------------------------------------------------------- oraexectrans
paramCount(c) == Len(queries[c]) - 1

\* Mutant: completeSQL releases the connection without committing.
completeSQLNoCommit == <<Op("close")>>
\* Mutant: the error path closes the connection before rolling back.
prosesSQLOnErrorCloseFirst == <<Op("close"), Op("rollback")>>

completeSQL      == <<Op("commit"), Op("close")>>
prosesSQLOnError == <<Op("rollback"), Op("close")>>

\* ressql[queryId] = {queryid, results}: a JavaScript array assignment.
\* Mutant: results tagged with a 1-based position.
TaggedOffByOne(queryId, res) == [queryid |-> queryId + 1, results |-> res]

Tagged(queryId, res) == [queryid |-> queryId, results |-> res]
Put(arr, i, v) == [j \in DOMAIN arr \cup {i} |-> IF j = i THEN v ELSE arr[j]]
EmptyArray == [j \in {} |-> NoVal]

nextCount(count) == count + 1

\* running(count): submit statement count, or commit, close and resolve
\* with the result array once count is past the list.
running(c, count, q) ==
    IF count <= paramCount(c) /\ count > -1
    THEN /\ Issue(c, q, <<Exec(count, queries[c][count + 1])>>)
         /\ UNCHANGED result
    ELSE /\ Issue(c, q, completeSQL)
         /\ Settle(c, Resolved(<<"ressql">>))

Oraexectrans(c) ==
    /\ kind[c] = "oraexectrans" /\ pc[c] = "idle"
    /\ GetConnection(c)
    /\ UNCHANGED <<conf, kind, queries, opq, log, done, uncommitted, committed, ressql, calls>>

\* getConnection's callback with a connection: running(0).
OraexectransConn(c) ==
    /\ kind[c] = "oraexectrans" /\ pc[c] = "granted"
    /\ pc' = [pc EXCEPT ![c] = "run"]
    /\ running(c, 0, opq[c])
    /\ UNCHANGED <<conf, kind, queries, waitq, connState, done, uncommitted, committed,
                   ressql, calls>>

\* Mutant: the error path has no return, so after rollback, close and
\* reject it falls through to the next statement.
ProsesSQLCbNoReturn(c) ==
    /\ kind[c] = "oraexectrans" /\ HeadIs(c, "execute")
    /\ \E r \in Outcomes(c) :
         LET e == Head(opq[c])
             q == IF r.ok THEN Tail(opq[c]) ELSE Tail(opq[c]) \o prosesSQLOnError
         IN
         /\ DriverExecute(c, e, r, FALSE)
         /\ ressql' = [ressql EXCEPT ![c] = Put(@, e.id, Tagged(e.id, Rows(e.sql)))]
         /\ IF e.id + 1 <= paramCount(c)
            THEN /\ opq' = [opq EXCEPT ![c] = Append(q, Exec(e.id + 1, queries[c][e.id + 2]))]
                 /\ log' = [log EXCEPT ![c] =
                              @ \o (IF r.ok THEN <<>> ELSE prosesSQLOnError)
                                \o <<Exec(e.id + 1, queries[c][e.id + 2])>>]
                 /\ IF r.ok THEN UNCHANGED result ELSE Settle(c, Rejected(r.msg))
            ELSE /\ opq' = [opq EXCEPT ![c] = q \o completeSQL]
                 /\ log' = [log EXCEPT ![c] =
                              @ \o (IF r.ok THEN <<>> ELSE prosesSQLOnError) \o completeSQL]
                 /\ Settle(c, IF r.ok THEN Resolved(<<"ressql">>)
                                       ELSE Settled1(Rejected(r.msg), Resolved(<<"ressql">>)))
    /\ UNCHANGED <<conf, kind, queries, pc, waitq, connState, calls>>

\* prosesSQL's execute callback: on error rollback, close and reject with
\* {message}; else store the tagged result and run the next statement.
ProsesSQLCb(c) ==
    /\ kind[c] = "oraexectrans" /\ HeadIs(c, "execute")
    /\ \E r \in Outcomes(c) :
         LET e == Head(opq[c]) IN
         /\ DriverExecute(c, e, r, FALSE)
         /\ IF ~r.ok
            THEN /\ Issue(c, Tail(opq[c]), prosesSQLOnError)
                 /\ Settle(c, Rejected(r.msg))
                 /\ UNCHANGED ressql
            ELSE /\ ressql' = [ressql EXCEPT ![c] = Put(@, e.id, Tagged(e.id, Rows(e.sql)))]
                 /\ running(c, nextCount(e.id), Tail(opq[c]))
    /\ UNCHANGED <<conf, kind, queries, pc, waitq, connState, calls>>

\* ------------------------------------------- commit, rollback and close
\* connection.commit() completing; nobody waits for it.
CommitDone(c) ==
    /\ HeadIs(c, "commit")
    /\ \E ok \in OkOrNot(c) :
         /\ Record(c, Head(opq[c]), ok, NoErr)
         /\ IF ok
            THEN /\ committed' = [committed EXCEPT ![c] = @ \cup uncommitted[c]]
                 /\ uncommitted' = [uncommitted EXCEPT ![c] = {}]
            ELSE UNCHANGED <<uncommitted, committed>>
    /\ opq' = [opq EXCEPT ![c] = Tail(@)]
    /\ UNCHANGED <<conf, kind, queries, pc, waitq, connState, log, ressql, result, calls>>

\* connection.rollback() completing.
RollbackDone(c) ==
    /\ HeadIs(c, "rollback")
    /\ \E ok \in OkOrNot(c) :
         /\ Record(c, Head(opq[c]), ok, NoErr)
         /\ uncommitted' = [uncommitted EXCEPT ![c] = IF ok THEN {} ELSE @]
    /\ opq' = [opq EXCEPT ![c] = Tail(@)]
    /\ UNCHANGED <<conf, kind, queries, pc, waitq, connState, log, committed, ressql,
                   result, calls>>

\* connection.close() completing: the open transaction is rolled back and
\* the connection goes back to the pool, which hands it to the first
\* queued request.
CloseDone(c) ==
    /\ HeadIs(c, "close")
    /\ \E ok \in OkOrNot(c) :
         /\ Record(c, Head(opq[c]), ok, NoErr)
         /\ IF ok
            THEN /\ uncommitted' = [uncommitted EXCEPT ![c] = {}]
                 /\ IF waitq # <<>>
                    THEN /\ connState' = [connState EXCEPT ![c] = "closed",
                                                           ![Head(waitq)] = "open"]
                         /\ pc' = [pc EXCEPT ![Head(waitq)] = "granted"]
                         /\ waitq' = Tail(waitq)
                    ELSE /\ connState' = [connState EXCEPT ![c] = "closed"]
                         /\ UNCHANGED <<pc, waitq>>
            ELSE UNCHANGED <<uncommitted, connState, pc, waitq>>
    /\ opq' = [opq EXCEPT ![c] = Tail(@)]
    /\ UNCHANGED <<conf, kind, queries, log, committed, ressql, result, calls>>

\* Mutant: the callback's error path returns without rejecting.
QueueTimeoutNoReject(c) ==
    /\ pc[c] = "queued"
    /\ waitq' = SelectSeq(waitq, LAMBDA x : x # c)
    /\ pc' = [pc EXCEPT ![c] = "failed"]
    /\ UNCHANGED <<conf, kind, queries, connState, opq, log, done, uncommitted, committed,
                   ressql, result, calls>>

\* A queued getConnection request timing out (queueTimeout): the callback
\* gets the error and rejects.
QueueTimeout(c) ==
    /\ pc[c] = "queued"
    /\ waitq' = SelectSeq(waitq, LAMBDA x : x # c)
    /\ pc' = [pc EXCEPT ![c] = "failed"]
    /\ Settle(c, Rejected("NJS-040"))
    /\ UNCHANGED <<conf, kind, queries, connState, opq, log, done, uncommitted, committed,
                   ressql, calls>>

\* ------------------------------------------------------ manual session
\* Mutant: the error path rolls back but forgets to close the connection.
exectransOnErrorNoClose == <<Op("rollback")>>

\* Mutant: the success path closes the connection as oraexec does.
exectransOnSuccessClose == <<Op("close")>>

exectransOnError == <<Op("rollback"), Op("close")>>
exectransOnSuccess == <<>>
committransOps   == <<Op("commit"), Op("close")>>
rollbacktransOps == <<Op("rollback"), Op("close")>>

\* The session is over once a close has been issued on its connection:
\* by committrans, by rollbacktrans or by a failed exectrans.
Terminal(c) == \E i \in 1..Len(log[c]) : log[c][i].op = "close"

\* A call on the handle.  late: the session was already over when the call
\* was made; quiet: no earlier call on the handle was still pending then.
Quiet(c) == \A k \in DOMAIN calls[c] : calls[c][k].st # "pending"

Call(c, name, sql, st) ==
    [op |-> name, sql |-> sql, st |-> st, val |-> NoVal, err |-> NoErr,
     n |-> IF st = "pending" THEN 0 ELSE 1,
     late |-> Terminal(c), quiet |-> Quiet(c)]

\* resolve or reject of the promise of call k on the handle.
SettleCall(c, k, v) ==
    calls' = [calls EXCEPT ![c][k] =
                 IF @.st = "pending"
                 THEN [@ EXCEPT !.st = v.st, !.val = v.val, !.err = v.err, !.n = 1]
                 ELSE [@ EXCEPT !.n = @ + 1]]

HasHandle(c) ==
    kind[c] = "begintrans" /\ result[c].st = "resolved" /\ Len(calls[c]) < MaxCalls

Begintrans(c) ==
    /\ kind[c] = "begintrans" /\ pc[c] = "idle"
    /\ GetConnection(c)
    /\ UNCHANGED <<conf, kind, queries, opq, log, done, uncommitted, committed, ressql, calls>>

\* getConnection's callback with a connection: resolve(connection).
BegintransConn(c) ==
    /\ kind[c] = "begintrans" /\ pc[c] = "granted"
    /\ pc' = [pc EXCEPT ![c] = "run"]
    /\ Settle(c, Resolved(<<"connection">>))
    /\ UNCHANGED <<conf, kind, queries, waitq, connState, opq, log, done, uncommitted,
                   committed, ressql, calls>>

\* exectrans(connection, sql, param): execute, autoCommit: false.
Exectrans(c, sql) ==
    /\ HasHandle(c)
    /\ calls' = [calls EXCEPT ![c] = Append(@, Call(c, "exectrans", sql, "pending"))]
    /\ Issue(c, opq[c], <<Exec(Len(calls[c]) + 1, sql)>>)
    /\ UNCHANGED <<conf, kind, queries, pc, waitq, connState, done, uncommitted, committed,
                   ressql, result>>

\* exectrans' execute callback: on error rollback, close and reject with
\* {message}; else resolve(result).
ExectransCb(c) ==
    /\ kind[c] = "begintrans" /\ HeadIs(c, "execute")
    /\ \E r \in Outcomes(c) :
         LET e == Head(opq[c]) IN
         /\ DriverExecute(c, e, r, FALSE)
         /\ IF ~r.ok
            THEN /\ Issue(c, Tail(opq[c]), exectransOnError)
                 /\ SettleCall(c, e.id, Rejected(r.msg))
            ELSE /\ Issue(c, Tail(opq[c]), exectransOnSuccess)
                 /\ SettleCall(c, e.id, Resolved(Rows(e.sql)))
    /\ UNCHANGED <<conf, kind, queries, pc, waitq, connState, ressql, result>>

\* committrans(connection): commit, close, resolve.
Committrans(c) ==
    /\ HasHandle(c)
    /\ calls' = [calls EXCEPT ![c] = Append(@, Call(c, "committrans", "", "resolved"))]
    /\ Issue(c, opq[c], committransOps)
    /\ UNCHANGED <<conf, kind, queries, pc, waitq, connState, done, uncommitted, committed,
                   ressql, result>>

\* rollbacktrans(connection): rollback, close, resolve.
Rollbacktrans(c) ==
    /\ HasHandle(c)
    /\ calls' = [calls EXCEPT ![c] = Append(@, Call(c, "rollbacktrans", "", "resolved"))]
    /\ Issue(c, opq[c], rollbacktransOps)
    /\ UNCHANGED <<conf, kind, queries, pc, waitq, connState, done, uncommitted, committed,
                   ressql, result>>

\* ------------------------------------------------- initialize and close
\* initialize(customConfig): createPool(customConfig), or createPool(dbconfig)
\* when no argument is given (cfg = ""); the pool is registered under the
\* alias of the configuration used.  The driver may reject the
\* configuration, and rejects an alias already registered.
Initialize(cfg) ==
    /\ admin.init = "none"
    /\ LET a == IF cfg # "" THEN cfg ELSE poolAlias IN
       \E ok \in BOOLEAN :
           IF ok /\ a \notin pools
           THEN /\ pools' = pools \cup {a}
                /\ admin' = [admin EXCEPT !.init = "resolved", !.cfg = cfg]
           ELSE /\ admin' = [admin EXCEPT !.init = "rejected", !.cfg = cfg]
                /\ UNCHANGED pools
    /\ UNCHANGED <<poolAlias, alias, kind, queries, pc, waitq, connState, opq, log, done,
                   uncommitted, committed, ressql, result, calls>>

\* close(): oracledb.getPool().close(poolClosingTime); getPool() without an
\* argument looks up the alias 'default' and throws when there is none.
\* Closing a pool that has leased connections is not modelled.
Close ==
    /\ admin.close = "none"
    /\ InUse = 0 /\ waitq = <<>>
    /\ IF "default" \notin pools
       THEN /\ admin' = [admin EXCEPT !.close = "NJS-047"]
            /\ UNCHANGED pools
       ELSE \E ok \in BOOLEAN :
                IF ok
                THEN /\ pools' = pools \ {"default"}
                     /\ admin' = [admin EXCEPT !.close = "resolved"]
                ELSE /\ admin' = [admin EXCEPT !.close = "failed"]
                     /\ UNCHANGED pools
    /\ UNCHANGED <<poolAlias, alias, kind, queries, pc, waitq, connState, opq, log, done,
                   uncommitted, committed, ressql, result, calls>>

\* ------------------------------------------------------- specifications
Batches == UNION {[1..n -> Sqls] : n \in 0..MaxBatch}

Args(k) ==
    CASE k = "oraexec"      -> [1..1 -> Sqls]
      [] k = "oraexectrans" -> Batches
      [] OTHER              -> {<<>>}

\* initialize() has created the pool 'default'; no call names an alias.
Ready ==
    /\ poolAlias = "default"
    /\ alias = [c \in Clients |-> ""]
    /\ pools = {"default"}
    /\ admin = [init |-> "resolved", cfg |-> "", close |-> "none"]

Start ==
    /\ pc = [c \in Clients |-> "idle"]
    /\ waitq = <<>>
    /\ connState = [c \in Clients |-> "none"]
    /\ opq = [c \in Clients |-> <<>>]
    /\ log = [c \in Clients |-> <<>>]
    /\ done = [c \in Clients |-> <<>>]
    /\ uncommitted = [c \in Clients |-> {}]
    /\ committed = [c \in Clients |-> {}]
    /\ ressql = [c \in Clients |-> EmptyArray]
    /\ result = [c \in Clients |-> Pending]
    /\ calls = [c \in Clients |-> <<>>]

\* One caller, making any one of the public calls with any arguments.
Init ==
    /\ \E k \in Kinds : kind = [c \in Clients |-> IF c = 1 THEN k ELSE "none"]
    /\ \E a \in Args(kind[1]) : queries = [c \in Clients |-> IF c = 1 THEN a ELSE <<>>]
    /\ Ready
    /\ Start

Next ==
    \E c \in Clients :
        \/ Oraexec(c) \/ OraexecConn(c) \/ OraexecCb(c)
        \/ Oraexectrans(c) \/ OraexectransConn(c) \/ ProsesSQLCb(c)
        \/ CommitDone(c) \/ RollbackDone(c) \/ CloseDone(c)
        \/ Begintrans(c) \/ BegintransConn(c) \/ ExectransCb(c)
        \/ Committrans(c) \/ Rollbacktrans(c)
        \/ \E sql \in Sqls : Exectrans(c, sql)

Spec == Init /\ [][Next]_vars

\* Concurrent callers of oraexec and oraexectrans sharing the pool.
PoolKinds == {"oraexec", "oraexectrans"}
PoolArgs(c, k) ==
    {a \in Args(k) : Len(a) <= (IF c = 1 THEN 2 ELSE 1) /\ \A i \in DOMAIN a : a[i] = "a"}

PoolInit ==
    /\ kind \in [Clients -> PoolKinds]
    /\ queries \in [Clients -> Batches]
    /\ \A c \in Clients : queries[c] \in PoolArgs(c, kind[c])
    /\ Ready
    /\ Start

\* What the pool, the driver and the callbacks do for a call once made.
Step(c) ==
    \/ OraexecConn(c) \/ OraexecCb(c)
    \/ OraexectransConn(c) \/ ProsesSQLCb(c)
    \/ CommitDone(c) \/ RollbackDone(c) \/ CloseDone(c)
    \/ QueueTimeout(c)

PoolNext ==
    \E c \in Clients : Oraexec(c) \/ Oraexectrans(c) \/ Step(c)

\* The driver answers every request and the event loop runs every callback
\* that is due; a caller is free never to call.
PoolSpec == PoolInit /\ [][PoolNext]_vars /\ \A c \in Clients : WF_vars(Step(c))

\* The whole life of the module: any POOL_ALIAS, initialize with or without
\* a configuration, one caller of each public call with or without an
\* alias, and close.  A session is begun and left open.
AliasInit ==
    /\ poolAlias \in Aliases
    /\ alias \in [Clients -> {""} \cup Aliases]
    /\ pools = {}
    /\ admin = [init |-> "none", cfg |-> "", close |-> "none"]
    /\ kind = <<"oraexec", "oraexectrans", "begintrans">>
    /\ queries = <<(<<"a">>), (<<"a">>), (<<>>)>>
    /\ Start

AliasNext ==
    \/ \E cfg \in {""} \cup Aliases : Initialize(cfg)
    \/ Close
    \/ \E c \in Clients :
           \/ Oraexec(c) \/ Oraexectrans(c) \/ Begintrans(c)
           \/ OraexecConn(c) \/ OraexecCb(c)
           \/ OraexectransConn(c) \/ ProsesSQLCb(c)
           \/ BegintransConn(c)
           \/ CommitDone(c) \/ RollbackDone(c) \/ CloseDone(c)
           \/ QueueTimeout(c)

AliasSpec == AliasInit /\ [][AliasNext]_vars

\* ================================================================ claims
Count(seq, name) == Cardinality({i \in DOMAIN seq : seq[i].op = name})
Executes(c)      == SelectSeq(log[c], LAMBDA e : e.op = "execute")
Acquired(c)      == connState[c] # "none"
Settled(c)       == result[c].st # "pending"

\* The driver completed operation name on c's connection successfully.
Completed(c, name) == \E j \in DOMAIN done[c] : done[c][j].op = name /\ done[c][j].ok
\* The driver completed statement id with the given outcome.
Executed(c, id, ok) ==
    \E j \in DOMAIN done[c] :
        done[c][j].op = "execute" /\ done[c][j].id = id /\ done[c][j].ok = ok

\* C1: an oraexectrans call that has resolved has all its statements'
\* effects committed, and one that has rejected has none of them committed.
C1_AllOrNothing ==
    \A c \in Clients :
        kind[c] = "oraexectrans" =>
            /\ result[c].st = "resolved" => committed[c] = 0..paramCount(c)
            /\ result[c].st = "rejected" => committed[c] = {}

\* C2: an oraexec call never calls connection.close twice, and once it has
\* settled with a connection acquired it has called it exactly once, as the
\* last operation on the connection.
C2_ClosedOnce ==
    \A c \in Clients :
        kind[c] = "oraexec" =>
            /\ Count(log[c], "close") <= 1
            /\ (Acquired(c) /\ Settled(c)) =>
                   /\ Count(log[c], "close") = 1
                   /\ log[c][Len(log[c])].op = "close"

C2_Witness ==
    \E c \in Clients :
        /\ kind[c] = "oraexec" /\ result[c].st = "rejected"
        /\ Executed(c, 0, FALSE) /\ Count(log[c], "close") = 1

\* C3: a call made on a session handle after the session reached a terminal
\* state never resolves.
C3_TerminalRejects ==
    \A c \in Clients : \A k \in DOMAIN calls[c] :
        calls[c][k].late => calls[c][k].st # "resolved"

\* C4: on a session's connection close is called at most once, and exactly
\* once as soon as the session is terminal.
C4_SessionClosedOnce ==
    \A c \in Clients :
        kind[c] = "begintrans" =>
            /\ Count(log[c], "close") <= 1
            /\ Terminal(c) => Count(log[c], "close") = 1

\* C5: when oraexectrans or exectrans has rejected because a statement
\* failed, the rollback has completed and the connection is released.
C5_UndoneWhenRejected ==
    \A c \in Clients :
        /\ (kind[c] = "oraexectrans" /\ pc[c] = "run" /\ result[c].st = "rejected") =>
               Completed(c, "rollback") /\ connState[c] = "closed"
        /\ \A k \in DOMAIN calls[c] :
               (calls[c][k].op = "exectrans" /\ calls[c][k].st = "rejected") =>
                   Completed(c, "rollback") /\ connState[c] = "closed"

\* C6: oraexectrans submits its statements in list order, statement i+1
\* only once statement i has succeeded, never two at a time, and none after
\* a statement has failed.
C6_InOrder ==
    \A c \in Clients :
        kind[c] = "oraexectrans" =>
            LET ex == Executes(c) IN
            /\ Len(ex) <= Len(queries[c])
            /\ \A i \in DOMAIN ex : ex[i].id = i - 1 /\ ex[i].sql = queries[c][i]
            /\ \A i \in DOMAIN ex : i > 1 => Executed(c, i - 2, TRUE)
            /\ Count(opq[c], "execute") <= 1
            /\ \A i \in DOMAIN ex : Executed(c, i - 1, FALSE) => Len(ex) = i

C6_Witness ==
    \E c \in Clients :
        /\ kind[c] = "oraexectrans" /\ Len(queries[c]) = 2
        /\ Executed(c, 0, FALSE) /\ opq[c] = <<>> /\ Len(Executes(c)) = 1

\* C7: a batch whose N statements all succeeded has resolved, and a batch
\* that has resolved holds exactly N entries, entry i tagged queryid = i
\* and carrying the driver's result of statement i of the list.
AllSucceeded(c) ==
    pc[c] = "run" /\ \A i \in 0..paramCount(c) : Executed(c, i, TRUE)

C7_TaggedResults ==
    \A c \in Clients :
        kind[c] = "oraexectrans" =>
            /\ AllSucceeded(c) => result[c].st = "resolved"
            /\ result[c].st = "resolved" =>
                   /\ AllSucceeded(c)
                   /\ DOMAIN ressql[c] = 0..paramCount(c)
                   /\ \A i \in 0..paramCount(c) :
                          ressql[c][i] = [queryid |-> i, results |-> Rows(queries[c][i + 1])]

C7_Witness ==
    \E c \in Clients :
        /\ kind[c] = "oraexectrans" /\ queries[c] = <<"a", "b">>
        /\ result[c].st = "resolved" /\ DOMAIN ressql[c] = {0, 1}

\* C8: in a session whose first two calls are exectrans calls that succeeded
\* and whose third call, made after both, is committrans, both effects are
\* committed once committrans has resolved; if it is rollbacktrans, neither
\* is committed; and nothing is committed before committrans is called.
TwoThen(c, name) ==
    /\ Len(calls[c]) >= 3
    /\ calls[c][1].op = "exectrans" /\ calls[c][1].st = "resolved"
    /\ calls[c][2].op = "exectrans" /\ calls[c][2].st = "resolved"
    /\ calls[c][3].op = name /\ calls[c][3].st = "resolved" /\ calls[c][3].quiet

C8_CommitOrRollback ==
    \A c \in Clients :
        /\ TwoThen(c, "committrans") => {1, 2} \subseteq committed[c]
        /\ TwoThen(c, "rollbacktrans") => {1, 2} \cap committed[c] = {}
        /\ committed[c] # {} /\ kind[c] = "begintrans" =>
               \E k \in DOMAIN calls[c] : calls[c][k].op = "committrans"

\* C9: the step in which a statement of exectrans fails issues rollback and
\* then close on the connection, which ends the session, and rejects the
\* call with the message the driver reported.
FailedNow(c) ==
    /\ kind[c] = "begintrans"
    /\ Len(done'[c]) = Len(done[c]) + 1
    /\ done'[c][Len(done'[c])].op = "execute"
    /\ ~done'[c][Len(done'[c])].ok

C9_FailureAborts ==
    [][\A c \in Clients :
          FailedNow(c) =>
              LET d == done'[c][Len(done'[c])] IN
              /\ log'[c] = log[c] \o <<Op("rollback"), Op("close")>>
              /\ Terminal(c)'
              /\ calls'[c][d.id].st = "rejected"
              /\ calls'[c][d.id].err = d.msg]_vars

C9_Witness ==
    \E c \in Clients : \E k \in DOMAIN calls[c] :
        /\ calls[c][k].op = "exectrans" /\ ~calls[c][k].late
        /\ calls[c][k].st = "rejected" /\ calls[c][k].err \in ErrMsgs
        /\ Terminal(c)

SomeFailed(c) == \E j \in DOMAIN done[c] : ~done[c][j].ok

C11_FailuresSurface ==
    \A c \in Clients :
        /\ (kind[c] \in {"oraexec", "oraexectrans"} /\ SomeFailed(c)) =>
               result[c].st # "resolved"
        /\ (kind[c] = "begintrans" /\ Len(calls[c]) = 1 /\ SomeFailed(c)) =>
               calls[c][1].st # "resolved"

\* C12: at most one statement is submitted to a connection and not yet
\* completed.
C12_OneInFlight ==
    \A c \in Clients : Count(opq[c], "execute") <= 1

\* C13: on a session's connection every execute comes from an exectrans
\* call, every commit from a committrans call, every rollback and close
\* from a committrans or rollbacktrans call or a failed statement; so after
\* begintrans and successful exectrans calls alone nothing but executes was
\* issued, the connection is leased and the session is not over.
NCalls(c, name) == Cardinality({k \in DOMAIN calls[c] : calls[c][k].op = name})
NFailed(c) ==
    Cardinality({j \in DOMAIN done[c] : done[c][j].op = "execute" /\ ~done[c][j].ok})

C13_SessionStaysActive ==
    \A c \in Clients :
        kind[c] = "begintrans" =>
            /\ Count(log[c], "execute") = NCalls(c, "exectrans")
            /\ Count(log[c], "commit") = NCalls(c, "committrans")
            /\ Count(log[c], "rollback") = NCalls(c, "rollbacktrans") + NFailed(c)
            /\ Count(log[c], "close") =
                   NCalls(c, "committrans") + NCalls(c, "rollbacktrans") + NFailed(c)
            /\ (/\ result[c].st = "resolved"
                /\ NCalls(c, "committrans") = 0 /\ NCalls(c, "rollbacktrans") = 0
                /\ NFailed(c) = 0) =>
                   connState[c] = "open" /\ ~Terminal(c)

C13_Witness ==
    \E c \in Clients :
        /\ kind[c] = "begintrans" /\ Len(calls[c]) = 2
        /\ \A k \in 1..2 : calls[c][k].op = "exectrans" /\ calls[c][k].st = "resolved"
        /\ Len(log[c]) = 2 /\ opq[c] = <<>> /\ connState[c] = "open"

\* C16: an oraexectrans call issues its executes, then one commit or one
\* rollback, then one close, and nothing after it: commit and close when it
\* has resolved, all statements having succeeded, rollback and close when
\* it has rejected after a statement failed.
Ends(c) == SelectSeq(log[c], LAMBDA e : e.op # "execute")

C16_OneEndOneRelease ==
    \A c \in Clients :
        kind[c] = "oraexectrans" =>
            /\ Ends(c) \in {<<>>, <<Op("commit"), Op("close")>>,
                            <<Op("rollback"), Op("close")>>}
            /\ log[c] = Executes(c) \o Ends(c)
            /\ (pc[c] = "run" /\ Settled(c)) => Ends(c) # <<>>
            /\ Ends(c) = <<Op("commit"), Op("close")>> <=>
                   (pc[c] = "run" /\ result[c].st = "resolved")
            /\ Ends(c) = <<Op("rollback"), Op("close")>> <=>
                   (pc[c] = "run" /\ result[c].st = "rejected")
            /\ Ends(c) = <<Op("commit"), Op("close")>> => AllSucceeded(c)
            /\ Ends(c) = <<Op("rollback"), Op("close")>> =>
                   \E i \in 0..paramCount(c) : Executed(c, i, FALSE)

C16_Witness ==
    \E c \in Clients :
        /\ kind[c] = "oraexectrans" /\ Len(queries[c]) = 2
        /\ Executed(c, 0, TRUE) /\ Executed(c, 1, FALSE)
        /\ Len(log[c]) = 4 /\ log[c][3].op = "rollback" /\ log[c][4].op = "close"
        /\ opq[c] = <<>>

\* C18: oraexectrans with an empty list submits no statement and rejects
\* only when no connection could be acquired; once its connection is
\* acquired it has issued one commit and one close and has resolved with an
\* empty array.
C18_EmptyBatch ==
    \A c \in Clients :
        (kind[c] = "oraexectrans" /\ queries[c] = <<>>) =>
            /\ result[c].st = "rejected" => pc[c] = "failed"
            /\ Executes(c) = <<>>
            /\ pc[c] \in {"idle", "granted"} => log[c] = <<>> /\ ~Settled(c)
            /\ pc[c] = "run" =>
                   /\ connState[c] # "none"
                   /\ log[c] = <<Op("commit"), Op("close")>>
                   /\ result[c].st = "resolved"
                   /\ DOMAIN ressql[c] = {}

C18_Witness ==
    \E c \in Clients :
        /\ kind[c] = "oraexectrans" /\ queries[c] = <<>>
        /\ result[c].st = "resolved" /\ Completed(c, "commit")
        /\ connState[c] = "closed" /\ opq[c] = <<>>

\* C17: resolve and reject of a call's promise are invoked at most once
\* between them, for oraexec, oraexectrans and begintrans and for every
\* call on a session handle; the promise is settled exactly when one was.
C17_SettlesOnce ==
    \A c \in Clients :
        /\ result[c].n <= 1
        /\ result[c].n = 1 <=> Settled(c)
        /\ \A k \in DOMAIN calls[c] :
               /\ calls[c][k].n <= 1
               /\ calls[c][k].n = 1 <=> calls[c][k].st # "pending"

C17_Witness ==
    \E c \in Clients :
        /\ kind[c] = "oraexectrans" /\ Len(queries[c]) = 2
        /\ Executed(c, 1, FALSE) /\ opq[c] = <<>>
        /\ result[c].st = "rejected" /\ result[c].n = 1

\* C15: a call whose connection could not be acquired (no pool under the
\* alias, queue full, queue timeout) has rejected with that error and has
\* issued nothing on any connection; and only such a call carries such an
\* error.
AcqErrors == {"NJS-047", "NJS-076", "NJS-040"}

C15_NoLeaseNoCalls ==
    \A c \in Clients :
        /\ pc[c] = "failed" =>
               /\ result[c].st = "rejected" /\ result[c].err \in AcqErrors
               /\ connState[c] = "none"
               /\ log[c] = <<>> /\ opq[c] = <<>> /\ done[c] = <<>>
        /\ result[c].err \in AcqErrors => pc[c] = "failed"

C15_Witness ==
    \E a, b \in Clients :
        /\ kind[a] = "begintrans" /\ pc[a] = "failed" /\ result[a].err = "NJS-047"
        /\ pc[b] = "failed" /\ result[b].err = "NJS-040"
        /\ \E h \in Clients : connState[h] = "open"

\* C19: while the pool that initialize() created from dbconfig is
\* registered, a call given no alias finds it, and close() finds it and,
\* when it resolves, has closed it.
OwnUp == admin.init = "resolved" /\ admin.cfg = "" /\ poolAlias \in pools

C19_DefaultPool ==
    [][OwnUp =>
          /\ \A c \in Clients :
                 (pc[c] = "idle" /\ pc'[c] # "idle" /\ alias[c] = "") =>
                     ~(pc'[c] = "failed" /\ result'[c].err = "NJS-047")
          /\ (admin.close = "none" /\ admin'.close # "none") =>
                 /\ admin'.close # "NJS-047"
                 /\ admin'.close = "resolved" => poolAlias \notin pools']_vars

====
